---- MODULE Spec2Model ----
(***************************************************************************)
(* A model of mh_special_char_keyboard_gui.py: the special character       *)
(* keyboard (builder buffer, symbol info, search tab, save to .txt) and    *)
(* the Tooltip helper.                                                     *)
(*                                                                         *)
(* A Python str is modelled as a sequence of characters.  A character is   *)
(* a string token: an ASCII character stands for itself ("A", "$", " ",    *)
(* "\n") and any other character is written "uXXXX" after its code point   *)
(* ("u20AC" is the euro sign).                                             *)
(***************************************************************************)
EXTENDS Integers, Sequences, FiniteSets, TLC

VARIABLES
    builder_text,   \* contents of the builder tk.Text, without Tk's final newline
    last_symbol,    \* self._last_symbol (None or a character)
    info,           \* the Symbol Info panel: what _update_info last set
    search_var,     \* self.search_var, the text of the search entry
    search_tab,     \* self.search_tab: None or the results frame
    tabs,           \* the tabs of the ttk.Notebook, in order
    call,           \* the most recent handler: its name, inputs and outside effects
    hist,           \* history: characters appended since the most recent clear
    platform_system,\* platform.system() of the running process
    prev_info,      \* history: the result of the symbol_info call before the last
    tipwindow,      \* Tooltip.tipwindow
    id,             \* Tooltip.id
    after_pending,  \* Tk: the after-callbacks scheduled and not yet run or cancelled
    toplevels,      \* Tk: the tooltip Toplevel windows that exist
    next_after,     \* Tk: number of after ids handed out
    next_toplevel,  \* Tk: number of Toplevels created
    left            \* history: a Leave happened and no Enter or Motion since

appVars == <<builder_text, last_symbol, info, search_var, search_tab, tabs, call, hist>>
infoVars == <<platform_system, prev_info>>
tipVars == <<tipwindow, id, after_pending, toplevels, next_after, next_toplevel, left>>
vars == <<appVars, infoVars, tipVars>>

None == "None"

(***************************************************************************)
(* Bounds of the model.                                                    *)
(***************************************************************************)
MaxBuilderLen == 2
MaxQueryLen == 2
MaxAfterIds == 5

(***************************************************************************)
(* Symbol data.  CATEGORIES is an excerpt of the table of the source that  *)
(* keeps the order of the categories and of the items: a character that    *)
(* occurs twice in one category (the bullet in Punctuation), a character   *)
(* that occurs in two categories (the double arrow in Math and in Arrows), *)
(* and a cased letter.                                                     *)
(***************************************************************************)
CATEGORIES ==
    << [cat |-> "Punctuation", items |-> <<"u2022", "u2022">>],
       [cat |-> "Currency", items |-> <<"u20AC">>],
       [cat |-> "Math", items |-> <<"u21D2">>],
       [cat |-> "Arrows", items |-> <<"u2190", "u21D2">>],
       [cat |-> "Letters (Latin Diacritics)", items |-> <<"u00C0">>] >>

RECURSIVE Flatten(_)
\* CATEGORIES.items() walked in order: the (character, category) pairs.
Flatten(cats) ==
    IF cats = <<>> THEN <<>>
    ELSE [i \in 1..Len(Head(cats).items) |-> <<Head(cats).items[i], Head(cats).cat>>]
         \o Flatten(Tail(cats))

TableChars == {e[1] : e \in {Flatten(CATEGORIES)[i] : i \in 1..Len(Flatten(CATEGORIES))}}

\* Characters symbol_info is exercised on besides those of the table: one below
\* U+0100 and printable (Alt code range), one beyond the BMP, one without a name.
SampleChars == TableChars \cup {"$", "u1F600", "\n"}

\* ord(ch)
ord(ch) ==
    CASE ch = "u2022" -> 8226
      [] ch = "u20AC" -> 8364
      [] ch = "u21D2" -> 8658
      [] ch = "u2190" -> 8592
      [] ch = "u00C0" -> 192
      [] ch = "u00E0" -> 224
      [] ch = "$" -> 36
      [] ch = "u1F600" -> 128512
      [] ch = "\n" -> 10

NoName == <<>>

\* unicodedata.name(ch) of Unicode 14; NoName where it raises ValueError.
UnicodeName(ch) ==
    CASE ch = "u2022" -> <<"B","U","L","L","E","T">>
      [] ch = "u20AC" -> <<"E","U","R","O"," ","S","I","G","N">>
      [] ch = "u21D2" -> <<"R","I","G","H","T","W","A","R","D","S"," ",
                           "D","O","U","B","L","E"," ","A","R","R","O","W">>
      [] ch = "u2190" -> <<"L","E","F","T","W","A","R","D","S"," ","A","R","R","O","W">>
      [] ch = "u00C0" -> <<"L","A","T","I","N"," ","C","A","P","I","T","A","L"," ",
                           "L","E","T","T","E","R"," ","A"," ","W","I","T","H"," ",
                           "G","R","A","V","E">>
      [] ch = "$" -> <<"D","O","L","L","A","R"," ","S","I","G","N">>
      [] ch = "u1F600" -> <<"G","R","I","N","N","I","N","G"," ","F","A","C","E">>
      [] OTHER -> NoName

(***************************************************************************)
(* str methods.                                                            *)
(***************************************************************************)
UpperToLower ==
    [c \in {"A","B","C","D","E","F","G","H","I","J","K","L","M","N","O","P","Q","R",
            "S","T","U","V","W","X","Y","Z","u00C0"} |->
       CASE c = "A" -> "a" [] c = "B" -> "b" [] c = "C" -> "c" [] c = "D" -> "d"
         [] c = "E" -> "e" [] c = "F" -> "f" [] c = "G" -> "g" [] c = "H" -> "h"
         [] c = "I" -> "i" [] c = "J" -> "j" [] c = "K" -> "k" [] c = "L" -> "l"
         [] c = "M" -> "m" [] c = "N" -> "n" [] c = "O" -> "o" [] c = "P" -> "p"
         [] c = "Q" -> "q" [] c = "R" -> "r" [] c = "S" -> "s" [] c = "T" -> "t"
         [] c = "U" -> "u" [] c = "V" -> "v" [] c = "W" -> "w" [] c = "X" -> "x"
         [] c = "Y" -> "y" [] c = "Z" -> "z" [] c = "u00C0" -> "u00E0"]

\* s.lower()
lower(s) == [i \in 1..Len(s) |-> IF s[i] \in DOMAIN UpperToLower
                                 THEN UpperToLower[s[i]] ELSE s[i]]

\* str.isspace() of one character
isspace(c) == c \in {" ", "\t", "\n", "\r", "\f"}

RECURSIVE lstrip(_)
lstrip(s) == IF s # <<>> /\ isspace(Head(s)) THEN lstrip(Tail(s)) ELSE s

RECURSIVE rstrip(_)
rstrip(s) == IF s # <<>> /\ isspace(s[Len(s)]) THEN rstrip(SubSeq(s, 1, Len(s) - 1)) ELSE s

\* s.strip()
strip(s) == rstrip(lstrip(s))

RECURSIVE rstrip_newline(_)
\* s.rstrip("\n")
rstrip_newline(s) ==
    IF s # <<>> /\ s[Len(s)] = "\n" THEN rstrip_newline(SubSeq(s, 1, Len(s) - 1)) ELSE s

\* q in s
contains(q, s) ==
    \E i \in 0..(Len(s) - Len(q)) : SubSeq(s, i + 1, i + Len(q)) = q

(***************************************************************************)
(* Utilities for symbol info.                                              *)
(***************************************************************************)
Digits == <<"0","1","2","3","4","5","6","7","8","9","A","B","C","D","E","F">>

RECURSIVE format_int(_, _)
\* the digits of n >= 0 in the given base, most significant first, upper case
format_int(n, base) ==
    IF n < base THEN <<Digits[n + 1]>>
    ELSE Append(format_int(n \div base, base), Digits[(n % base) + 1])

RECURSIVE zero_pad(_, _)
\* the width of a format spec such as 04X: zeros on the left up to width
zero_pad(s, width) == IF Len(s) >= width THEN s ELSE zero_pad(<<"0">> \o s, width)

NoNameSentinel == <<"<","n","o"," ","n","a","m","e",">">>

NoInfo == [char |-> None, name |-> <<>>, hex |-> <<>>, dec |-> <<>>,
           html_dec |-> <<>>, html_hex |-> <<>>, alt |-> <<>>, raised |-> None]

\* mutant of name_lookup: no except clause, the ValueError escapes
name_lookup_unguarded(ch) ==
    IF UnicodeName(ch) = NoName
    THEN [raised |-> "ValueError", name |-> <<>>]
    ELSE [raised |-> None, name |-> UnicodeName(ch)]

\* try: name = unicodedata.name(ch) / except ValueError: name = "<no name>"
\* raised names the exception that leaves the try statement, None when none does
name_lookup(ch) ==
    IF UnicodeName(ch) = NoName
    THEN [raised |-> None, name |-> NoNameSentinel]
    ELSE [raised |-> None, name |-> UnicodeName(ch)]

\* f"Alt+{cp}" if 32 <= cp <= 255 and platform.system() == "Windows" else the dash
alt_hint(cp, system) ==
    IF 32 <= cp /\ cp <= 255 /\ system = "Windows"
    THEN <<"A","l","t","+">> \o format_int(cp, 10)
    ELSE <<"u2014">>

\* mutant of hex_cp: the format spec X in place of 04X
hex_cp_unpadded(cp) == <<"U","+">> \o format_int(cp, 16)

\* f"U+{cp:04X}"
hex_cp(cp) == <<"U","+">> \o zero_pad(format_int(cp, 16), 4)

\* f"&#x{cp:X};"
html_hex(cp) == <<"&","#","x">> \o format_int(cp, 16) \o <<";">>

\* f"&#{cp};"
html_dec(cp) == <<"&","#">> \o format_int(cp, 10) \o <<";">>

\* symbol_info(ch) on a platform: the dict returned, or NoInfo with the exception
\* that escaped
symbol_info(ch, system) ==
    IF name_lookup(ch).raised # None
    THEN [NoInfo EXCEPT !.char = ch, !.raised = name_lookup(ch).raised]
    ELSE [char |-> ch,
          name |-> name_lookup(ch).name,
          hex |-> hex_cp(ord(ch)),
          dec |-> format_int(ord(ch), 10),
          html_dec |-> html_dec(ord(ch)),
          html_hex |-> html_hex(ord(ch)),
          alt |-> alt_hint(ord(ch), system),
          raised |-> None]

Platforms == {"Windows", "Linux"}

(***************************************************************************)
(* symbol_info as a function of its own: any of the sample characters, in  *)
(* any order, on either platform.                                          *)
(***************************************************************************)
InfoInit ==
    /\ platform_system \in Platforms
    /\ info = NoInfo
    /\ prev_info = NoInfo

SymbolInfoCall(ch) ==
    /\ info' = symbol_info(ch, platform_system)
    /\ prev_info' = info
    /\ UNCHANGED platform_system

(***************************************************************************)
(* Tk collaborators of the application.                                    *)
(***************************************************************************)
\* builder_text.get("1.0", tk.END): a Text widget ends with a newline of its own
text_get_all(buf) == buf \o <<"\n">>

\* mutant of text_insert_end: the insert index "1.0" in place of tk.END
text_insert_front(buf, ch) == <<ch>> \o buf

\* builder_text.insert(tk.END, ch): before the widget's final newline
text_insert_end(buf, ch) == Append(buf, ch)

\* builder_text.delete("1.0", tk.END)
text_delete_all(buf) == <<>>

\* what a handler does outside the application: a dialog shown (value is the
\* user's answer), the clipboard set, a file written
Effect(kind, value, text) == [kind |-> kind, value |-> value, text |-> text]

Call(op, args, effects, results) ==
    [op |-> op, args |-> args, effects |-> effects, results |-> results]

\* a notebook tab: its label, the characters of its buttons, and whether it is the
\* frame _show_search_results made
Frame(text, items, search) == [text |-> text, items |-> items, search |-> search]

\* self.search_tab = None
NoFrame == Frame(<<>>, <<>>, FALSE)

\* self.tabs.add(frame, text=cat) for cat, items in CATEGORIES.items()
category_tabs == [i \in 1..Len(CATEGORIES) |->
                     Frame(<<CATEGORIES[i].cat>>, CATEGORIES[i].items, FALSE)]

\* mutant of tabs_forget: the tab is not forgotten
tabs_forget_nothing(ts, frame) == ts

\* idx = self.tabs.index(frame); self.tabs.forget(idx)
tabs_forget(ts, frame) ==
    LET idx == CHOOSE i \in 1..Len(ts) : ts[i] = frame /\ \A j \in 1..(i - 1) : ts[j] # frame
    IN  SubSeq(ts, 1, idx - 1) \o SubSeq(ts, idx + 1, Len(ts))

(***************************************************************************)
(* Actions of SpecialCharKeyboard.                                         *)
(***************************************************************************)
AppInit ==
    /\ builder_text = <<>>
    /\ last_symbol = None
    /\ info = NoInfo
    /\ search_var = <<>>
    /\ search_tab = NoFrame
    /\ tabs = category_tabs
    /\ call = Call("__init__", <<>>, <<>>, <<>>)
    /\ hist = [edited |-> FALSE, appended |-> <<>>]

\* hist after an append of ch / a clear / a keystroke in the builder
hist_append(ch) == IF hist.edited THEN hist ELSE [hist EXCEPT !.appended = Append(@, ch)]
hist_clear == [edited |-> FALSE, appended |-> <<>>]
hist_edit == [edited |-> TRUE, appended |-> <<>>]

\* _on_symbol_click(ch), called by handler op
on_symbol_click(op, ch) ==
    /\ last_symbol' = ch
    /\ info' = symbol_info(ch, platform_system)
    /\ call' = Call(op, <<ch>>, <<Effect("clipboard", "", <<ch>>)>>, <<>>)
    /\ UNCHANGED <<builder_text, hist, search_var, search_tab, tabs>>

\* _append_symbol(ch), called by handler op
append_symbol(op, ch) ==
    /\ Len(builder_text) < MaxBuilderLen
    /\ builder_text' = text_insert_end(builder_text, ch)
    /\ last_symbol' = ch
    /\ info' = symbol_info(ch, platform_system)
    /\ call' = Call(op, <<ch>>, <<>>, <<>>)
    /\ hist' = hist_append(ch)
    /\ UNCHANGED <<search_var, search_tab, tabs>>

nothing_selected(op) ==
    /\ call' = Call(op, <<>>, <<Effect("showinfo", "Nothing Selected", <<>>)>>, <<>>)
    /\ UNCHANGED <<builder_text, hist, last_symbol, info, search_var, search_tab, tabs>>

\* a click on a symbol button, or Copy of its context menu
OnSymbolClick(ch) == on_symbol_click("_on_symbol_click", ch)

\* Shift-click on a symbol button, or Append to Builder of its context menu
AppendSymbol(ch) == append_symbol("_append_symbol", ch)

CopyCurrent ==
    IF last_symbol = None THEN nothing_selected("_copy_current")
    ELSE on_symbol_click("_copy_current", last_symbol)

AppendCurrent ==
    IF last_symbol = None THEN nothing_selected("_append_current")
    ELSE append_symbol("_append_current", last_symbol)

\* mutant of CopyAll: a cut, the builder emptied once copied
CopyAllCut ==
    /\ call' = Call("_copy_all", <<>>,
                    <<Effect("clipboard", "", rstrip_newline(text_get_all(builder_text)))>>,
                    <<>>)
    /\ builder_text' = <<>>
    /\ UNCHANGED <<hist, last_symbol, info, search_var, search_tab, tabs>>

CopyAll ==
    /\ call' = Call("_copy_all", <<>>,
                    <<Effect("clipboard", "", rstrip_newline(text_get_all(builder_text)))>>,
                    <<>>)
    /\ UNCHANGED <<builder_text, hist, last_symbol, info, search_var, search_tab, tabs>>

ClearBuilder ==
    /\ builder_text' = text_delete_all(builder_text)
    /\ hist' = hist_clear
    /\ call' = Call("_clear_builder", <<>>, <<>>, <<>>)
    /\ UNCHANGED <<last_symbol, info, search_var, search_tab, tabs>>

\* mutant of save_asks: if not text, without the strip
save_asks_untrimmed(text) == text = <<>>

\* if not text.strip(): the builder counts as empty and the user is asked
save_asks(text) == strip(text) = <<>>

\* the effects of _save_to_txt on the text read from the builder, for the user's
\* answer to the prompt, the path the save dialog returns ("" when cancelled) and
\* what open/write do: "ok", "open_error" (open raises) or "write_error" (write
\* raises after open truncated the file)
save_effects(text, yes, path, outcome) ==
    LET prompt == IF save_asks(text)
                  THEN <<Effect("askyesno", IF yes THEN "yes" ELSE "no", <<>>)>>
                  ELSE <<>>
        dialog == <<Effect("asksaveasfilename", path, <<>>)>>
        io == CASE outcome = "ok" -> <<Effect("write", path, text)>>
                [] outcome = "open_error" -> <<Effect("showerror", "Save Error", <<>>)>>
                [] outcome = "write_error" -> <<Effect("truncate", path, <<>>),
                                               Effect("showerror", "Save Error", <<>>)>>
    IN  IF save_asks(text) /\ ~yes THEN prompt
        ELSE IF path = "" THEN prompt \o dialog
        ELSE prompt \o dialog \o io

SaveToTxt(yes, path, outcome) ==
    /\ call' = Call("_save_to_txt", <<>>,
                    save_effects(text_get_all(builder_text), yes, path, outcome), <<>>)
    /\ UNCHANGED <<builder_text, hist, last_symbol, info, search_var, search_tab, tabs>>

\* a key typed by the user in the builder tk.Text, at the insertion cursor
TypeInBuilder(c, i) ==
    /\ Len(builder_text) < MaxBuilderLen
    /\ builder_text' = SubSeq(builder_text, 1, i) \o <<c>>
                       \o SubSeq(builder_text, i + 1, Len(builder_text))
    /\ hist' = hist_edit
    /\ call' = Call("<Key>", <<c>>, <<>>, <<>>)
    /\ UNCHANGED <<last_symbol, info, search_var, search_tab, tabs>>

\* the user edits the search tk.Entry, bound to search_var
TypeInSearch(q) ==
    /\ search_var' = q
    /\ call' = Call("<Entry>", q, <<>>, <<>>)
    /\ UNCHANGED <<builder_text, hist, last_symbol, info, search_tab, tabs>>

(***************************************************************************)
(* Search.                                                                 *)
(***************************************************************************)
\* mutant of search_name: the name without .lower()
search_name_cased(ch) == UnicodeName(ch)

\* name = ""; try: name = unicodedata.name(ch).lower() / except ValueError: pass
search_name(ch) == IF UnicodeName(ch) = NoName THEN <<>> ELSE lower(UnicodeName(ch))

\* q in ch.lower() or (name and q in name)
search_match(q, ch) ==
    \/ contains(q, lower(<<ch>>))
    \/ (search_name(ch) # <<>> /\ contains(q, search_name(ch)))

RECURSIVE search_items(_, _, _)
\* for ch in items: ... results.append((ch, cat))
search_items(q, cat, items) ==
    IF items = <<>> THEN <<>>
    ELSE (IF search_match(q, Head(items)) THEN << <<Head(items), cat>> >> ELSE <<>>)
         \o search_items(q, cat, Tail(items))

RECURSIVE search_categories(_, _)
\* for cat, items in CATEGORIES.items(): ...
search_categories(q, cats) ==
    IF cats = <<>> THEN <<>>
    ELSE search_items(q, Head(cats).cat, Head(cats).items)
         \o search_categories(q, Tail(cats))

\* mutant of search_query: without .strip()
search_query_unstripped(text) == lower(text)

\* q = self.search_var.get().strip().lower()
search_query(text) == lower(strip(text))

\* f"Search: '{query}' ({count} result{'s' if count != 1 else ''})"
search_label(query, count) ==
    <<"Search: '">> \o query \o <<"' (">> \o format_int(count, 10)
    \o <<IF count # 1 THEN " results" ELSE " result">> \o <<")">>

\* the tabs once _clear_search or _show_search_results has forgotten search_tab
tabs_without_search ==
    IF search_tab # NoFrame THEN tabs_forget(tabs, search_tab) ELSE tabs

\* _clear_search(), called by handler op on the entry text
clear_search(op, text) ==
    /\ search_var' = <<>>
    /\ tabs' = tabs_without_search
    /\ search_tab' = NoFrame
    /\ call' = Call(op, text, <<>>, <<>>)
    /\ UNCHANGED <<builder_text, hist, last_symbol, info>>

\* _show_search_results(results, query)
show_search_results(results, query) ==
    LET frame == Frame(search_label(query, Len(results)),
                       [i \in 1..Len(results) |-> results[i][1]], TRUE)
    IN  /\ search_tab' = frame
        /\ tabs' = Append(tabs_without_search, frame)

ClearSearch == clear_search("_clear_search", search_var)

DoSearch ==
    IF search_query(search_var) = <<>>
    THEN clear_search("_do_search", search_var)
    ELSE /\ show_search_results(search_categories(search_query(search_var), CATEGORIES),
                                search_query(search_var))
         /\ call' = Call("_do_search", search_var, <<>>,
                         search_categories(search_query(search_var), CATEGORIES))
         /\ UNCHANGED <<builder_text, hist, last_symbol, info, search_var>>

(***************************************************************************)
(* The inputs of the model.                                                *)
(***************************************************************************)
\* keys typed in the builder
TypedChars == {" "}

Paths == {"", "a.txt", "b.txt"}

Outcomes == {"ok", "open_error", "write_error"}

QueryChars == {" ", "r", "O", "u00C0"}

RECURSIVE SeqsUpTo(_, _)
SeqsUpTo(S, n) ==
    IF n = 0 THEN {<<>>}
    ELSE SeqsUpTo(S, n - 1)
         \cup {Append(s, c) : s \in {t \in SeqsUpTo(S, n - 1) : Len(t) = n - 1}, c \in S}

\* the texts of the search entry in SearchSpec: every short text, and the query
\* "arrow" in both cases
Queries == SeqsUpTo(QueryChars, MaxQueryLen)
           \cup {<<"a","r","r","o","w">>, <<"A","R","R","O","W">>}

\* the texts of the search entry in Spec
AppQueries == {<<" ">>, <<"r","O">>}

(***************************************************************************)
(* The application: every handler, on small inputs.                        *)
(***************************************************************************)
InertInfo == prev_info = NoInfo

InertTooltip ==
    /\ tipwindow = 0
    /\ id = 0
    /\ after_pending = {}
    /\ toplevels = {}
    /\ next_after = 0
    /\ next_toplevel = 0
    /\ left = FALSE

Init ==
    /\ AppInit
    /\ platform_system \in Platforms
    /\ InertInfo
    /\ InertTooltip

Next ==
    \/ \E ch \in TableChars : OnSymbolClick(ch) /\ UNCHANGED <<infoVars, tipVars>>
    \/ \E ch \in TableChars : AppendSymbol(ch) /\ UNCHANGED <<infoVars, tipVars>>
    \/ CopyCurrent /\ UNCHANGED <<infoVars, tipVars>>
    \/ AppendCurrent /\ UNCHANGED <<infoVars, tipVars>>
    \/ CopyAll /\ UNCHANGED <<infoVars, tipVars>>
    \/ ClearBuilder /\ UNCHANGED <<infoVars, tipVars>>
    \/ \E yes \in BOOLEAN, path \in Paths, outcome \in Outcomes :
          SaveToTxt(yes, path, outcome) /\ UNCHANGED <<infoVars, tipVars>>
    \/ \E c \in TypedChars, i \in 0..Len(builder_text) :
          TypeInBuilder(c, i) /\ UNCHANGED <<infoVars, tipVars>>
    \/ \E q \in AppQueries : TypeInSearch(q) /\ UNCHANGED <<infoVars, tipVars>>
    \/ DoSearch /\ UNCHANGED <<infoVars, tipVars>>
    \/ ClearSearch /\ UNCHANGED <<infoVars, tipVars>>

Spec == Init /\ [][Next]_vars

(***************************************************************************)
(* Search alone, on every short query.                                     *)
(***************************************************************************)
SearchInit ==
    /\ AppInit
    /\ platform_system \in Platforms
    /\ InertInfo
    /\ InertTooltip

SearchNext ==
    \/ \E q \in Queries : TypeInSearch(q) /\ UNCHANGED <<infoVars, tipVars>>
    \/ DoSearch /\ UNCHANGED <<infoVars, tipVars>>
    \/ ClearSearch /\ UNCHANGED <<infoVars, tipVars>>

SearchSpec == SearchInit /\ [][SearchNext]_vars

(***************************************************************************)
(* symbol_info alone.                                                      *)
(***************************************************************************)
InfoSpecInit ==
    /\ InfoInit
    /\ builder_text = <<>>
    /\ last_symbol = None
    /\ search_var = <<>>
    /\ search_tab = NoFrame
    /\ tabs = category_tabs
    /\ call = Call("__init__", <<>>, <<>>, <<>>)
    /\ hist = [edited |-> FALSE, appended |-> <<>>]
    /\ InertTooltip

InfoNext ==
    \E ch \in SampleChars :
        /\ SymbolInfoCall(ch)
        /\ UNCHANGED <<builder_text, last_symbol, search_var, search_tab, tabs, call, hist>>
        /\ UNCHANGED tipVars

InfoSpec == InfoSpecInit /\ [][InfoNext]_vars

(***************************************************************************)
(* Tooltip: one instance on one widget.  An after id and a Toplevel are    *)
(* numbered from 1 in the order Tk hands them out; 0 stands for None.      *)
(***************************************************************************)
\* mutant of unschedule_pending: self.id dropped without after_cancel
unschedule_pending_kept == after_pending

\* _unschedule: the timers Tk still holds
unschedule_pending == IF id # 0 THEN after_pending \ {id} ELSE after_pending

\* _schedule: _unschedule, then self.id = self.widget.after(self.delay, self._show)
schedule ==
    /\ next_after < MaxAfterIds
    /\ next_after' = next_after + 1
    /\ id' = next_after + 1
    /\ after_pending' = unschedule_pending \cup {next_after + 1}

\* _hide
hide ==
    /\ tipwindow' = 0
    /\ toplevels' = IF tipwindow # 0 THEN toplevels \ {tipwindow} ELSE toplevels

\* _show with what winfo_viewable() and text_fn() give
show(is_viewable, text_empty) ==
    IF tipwindow # 0 \/ ~is_viewable \/ text_empty
    THEN UNCHANGED <<tipwindow, toplevels, next_toplevel>>
    ELSE /\ next_toplevel' = next_toplevel + 1
         /\ tipwindow' = next_toplevel + 1
         /\ toplevels' = toplevels \cup {next_toplevel + 1}

\* <Enter>
Enter ==
    /\ schedule
    /\ left' = FALSE
    /\ UNCHANGED <<tipwindow, toplevels, next_toplevel>>

\* <Leave>
Leave ==
    /\ after_pending' = unschedule_pending
    /\ id' = 0
    /\ hide
    /\ left' = TRUE
    /\ UNCHANGED <<next_after, next_toplevel>>

\* <Motion>: _unschedule, then _schedule
Motion ==
    /\ schedule
    /\ left' = FALSE
    /\ UNCHANGED <<tipwindow, toplevels, next_toplevel>>

\* Tk runs the after-callback t: it is no longer pending, and _show runs
TimerExpires(t, is_viewable, text_empty) ==
    /\ t \in after_pending
    /\ after_pending' = after_pending \ {t}
    /\ show(is_viewable, text_empty)
    /\ UNCHANGED <<id, next_after, left>>

TooltipInit ==
    /\ AppInit
    /\ platform_system \in Platforms
    /\ InertInfo
    /\ InertTooltip

TooltipNext ==
    \/ Enter /\ UNCHANGED <<appVars, infoVars>>
    \/ Leave /\ UNCHANGED <<appVars, infoVars>>
    \/ Motion /\ UNCHANGED <<appVars, infoVars>>
    \/ \E t \in after_pending, is_viewable \in BOOLEAN, text_empty \in BOOLEAN :
          TimerExpires(t, is_viewable, text_empty) /\ UNCHANGED <<appVars, infoVars>>

TooltipSpec == TooltipInit /\ [][TooltipNext]_vars

(***************************************************************************)
(* Properties.                                                             *)
(***************************************************************************)
\* the places of the effects of one kind in the most recent handler's effects
EffectsOf(kind) == {i \in 1..Len(call.effects) : call.effects[i].kind = kind}

Blank(s) == \A i \in 1..Len(s) : isspace(s[i])

\* C1: as long as the builder is changed by appends and clears only, it holds
\* exactly the characters appended since the most recent clear, in the order of
\* the appends; and after a clear it is empty whatever it held.
C1_BuilderIsAppendsSinceClear ==
    /\ ~hist.edited => builder_text = hist.appended
    /\ call.op = "_clear_builder" => builder_text = <<>>

\* two different characters appended one after the other, by appends only
C1_Witness ==
    /\ ~hist.edited
    /\ call.op \in {"_append_symbol", "_append_current"}
    /\ Len(builder_text) = 2
    /\ builder_text[1] # builder_text[2]
    /\ call.args = <<builder_text[2]>>

\* C2: the text a save writes is exactly the contents of the builder, nothing
\* added or removed; a confirmed save of an empty builder writes no character.
C2_SaveWritesExactBuffer ==
    call.op = "_save_to_txt" =>
        \A i \in EffectsOf("write") : call.effects[i].text = builder_text

\* C3 as stated: the prompt is shown exactly when the builder is empty; it comes
\* before the save dialog; declined, nothing else happens; and a file is written
\* only to the path chosen in the save dialog.
C3_PromptOnlyWhenEmpty ==
    call.op = "_save_to_txt" =>
        /\ (EffectsOf("askyesno") # {}) <=> (builder_text = <<>>)
        /\ \A i \in EffectsOf("askyesno") :
              /\ i = 1
              /\ call.effects[i].value = "no" => Len(call.effects) = 1
        /\ \A i \in EffectsOf("write") \cup EffectsOf("truncate") :
              /\ i > 1
              /\ call.effects[i - 1].kind = "asksaveasfilename"
              /\ call.effects[i - 1].value # ""
              /\ call.effects[i].value = call.effects[i - 1].value

\* C3 amended: the prompt is shown exactly when the builder holds no character
\* other than whitespace; the rest as stated.
C3_PromptWhenBlank ==
    call.op = "_save_to_txt" =>
        /\ (EffectsOf("askyesno") # {}) <=> Blank(builder_text)
        /\ \A i \in EffectsOf("askyesno") :
              /\ i = 1
              /\ call.effects[i].value = "no" => Len(call.effects) = 1
        /\ \A i \in EffectsOf("write") \cup EffectsOf("truncate") :
              /\ i > 1
              /\ call.effects[i - 1].kind = "asksaveasfilename"
              /\ call.effects[i - 1].value # ""
              /\ call.effects[i].value = call.effects[i - 1].value

\* a builder of whitespace only, the prompt answered yes, a path chosen, the file
\* written
C3_Witness ==
    /\ call.op = "_save_to_txt"
    /\ builder_text = <<" ">>
    /\ Len(call.effects) = 3
    /\ call.effects[1] = Effect("askyesno", "yes", <<>>)
    /\ call.effects[3].kind = "write"

\* the query with the whitespace at both ends left out
Trimmed(q) ==
    LET solid == {i \in 1..Len(q) : ~isspace(q[i])}
    IN  IF solid = {} THEN <<>>
        ELSE SubSeq(q, CHOOSE i \in solid : \A j \in solid : i <= j,
                       CHOOSE i \in solid : \A j \in solid : i >= j)

\* two characters that are the same up to case
SameLetter(a, b) ==
    \/ a = b
    \/ a \in DOMAIN UpperToLower /\ UpperToLower[a] = b
    \/ b \in DOMAIN UpperToLower /\ UpperToLower[b] = a

\* q occurs in s, case aside
OccursIn(q, s) ==
    \E i \in 1..(Len(s) - Len(q) + 1) :
        \A j \in 1..Len(q) : SameLetter(q[j], s[i + j - 1])

\* the table entries a query is to find: those whose character or Unicode name
\* holds the query, in the order of the table
Expected(q) ==
    SelectSeq(Flatten(CATEGORIES),
              LAMBDA e : OccursIn(q, <<e[1]>>) \/ OccursIn(q, UnicodeName(e[1])))

\* C4: Find on a query that is not empty once trimmed returns, in the order of the
\* table and once per occurrence, exactly the (character, category) pairs whose
\* character or Unicode name holds the trimmed query, case aside; so "arrow"
\* returns every character of the Arrows category.
C4_FindReturnsMatches ==
    (call.op = "_do_search" /\ Trimmed(call.args) # <<>>) =>
        /\ call.results = Expected(Trimmed(call.args))
        /\ Trimmed(call.args) \in {<<"a","r","r","o","w">>, <<"A","R","R","O","W">>} =>
              \A k \in 1..Len(CATEGORIES) :
                 CATEGORIES[k].cat = "Arrows" =>
                    \A n \in 1..Len(CATEGORIES[k].items) :
                       \E r \in 1..Len(call.results) :
                          call.results[r] = <<CATEGORIES[k].items[n], "Arrows">>

\* Find on "ARROW" returned the double arrow of Math and both Arrows
C4_Witness ==
    /\ call.op = "_do_search"
    /\ call.args = <<"A","R","R","O","W">>
    /\ call.results = << <<"u21D2", "Math">>, <<"u2190", "Arrows">>, <<"u21D2", "Arrows">> >>

SearchFrames == {i \in 1..Len(tabs) : tabs[i].search}

\* C5: Find on a query that is empty or whitespace only computes no results and
\* ends as Clear does: no search-results tab, the search field empty.
C5_BlankFindClears ==
    (call.op = "_do_search" /\ Blank(call.args)) =>
        /\ call.results = <<>>
        /\ search_tab = NoFrame
        /\ SearchFrames = {}
        /\ tabs = category_tabs
        /\ search_var = <<>>

\* Find on two spaces
C5_Witness ==
    /\ call.op = "_do_search"
    /\ call.args = <<" ", " ">>
    /\ search_var = <<>>

\* C6: at most one search-results tab exists, and it is search_tab; after a Find
\* on a query that is not blank it holds the results of that Find only, added
\* after the category tabs; after Clear there is none.
C6_OneSearchTab ==
    /\ Cardinality(SearchFrames) <= 1
    /\ search_tab = NoFrame <=> SearchFrames = {}
    /\ search_tab # NoFrame => tabs = Append(category_tabs, search_tab)
    /\ (call.op = "_do_search" /\ ~Blank(call.args)) =>
          /\ search_tab # NoFrame
          /\ search_tab.items = [i \in 1..Len(call.results) |-> call.results[i][1]]
          /\ search_tab.text = search_label(lower(Trimmed(call.args)), Len(call.results))
    /\ call.op = "_clear_search" => search_tab = NoFrame /\ tabs = category_tabs

\* a Find with one result, shown in the one tab after the category tabs
C6_Witness ==
    /\ call.op = "_do_search"
    /\ Len(call.results) = 1
    /\ search_tab.items = <<"u00C0">>
    /\ Len(tabs) = Len(CATEGORIES) + 1

\* the handlers other than append and clear
OtherHandlers == {"_on_symbol_click", "_copy_current", "_copy_all", "_save_to_txt",
                  "_do_search", "_clear_search"}

\* C7: a step of any handler other than append and clear (a click that copies,
\* Copy Symbol, Copy All, Save to .txt whatever its outcome, Find, search Clear)
\* leaves the builder as it was, and the category tabs keep the items of the table.
C7_OnlyAppendAndClearChangeBuilder ==
    [][(call' # call /\ call'.op \in OtherHandlers) =>
          /\ builder_text' = builder_text
          /\ SubSeq(tabs', 1, Len(CATEGORIES)) = category_tabs]_vars

\* a save that failed in write, on a builder that is not empty
C7_Witness ==
    /\ call.op = "_save_to_txt"
    /\ EffectsOf("truncate") # {}
    /\ Len(builder_text) = 2

RECURSIVE ValueOf(_, _)
\* the number a sequence of digits writes in a base, -1 when one is no digit of it
ValueOf(ds, base) ==
    IF ds = <<>> THEN 0
    ELSE LET d == {k \in 0..(base - 1) : Digits[k + 1] = ds[Len(ds)]}
             rest == ValueOf(SubSeq(ds, 1, Len(ds) - 1), base)
         IN  IF d = {} \/ rest < 0 THEN -1
             ELSE base * rest + (CHOOSE k \in d : TRUE)

\* digits without a zero in front, but for the single digit 0
Canonical(ds) == ds # <<>> /\ (Len(ds) > 1 => ds[1] # "0")

\* C9: dec is the decimal digits of the code point, hex is "U+" and the code point
\* in hexadecimal padded with zeros to four digits or more, html_dec is "&#", the
\* decimal code point and ";", html_hex is "&#x", the hexadecimal code point and
\* ";"; for the euro sign: 8364, U+20AC, &#8364; and &#x20AC;.
C9_SymbolInfoForms ==
    info.char # None =>
        LET cp == ord(info.char)
            h == SubSeq(info.hex, 3, Len(info.hex))
            hd == SubSeq(info.html_dec, 3, Len(info.html_dec) - 1)
            hh == SubSeq(info.html_hex, 4, Len(info.html_hex) - 1)
        IN  /\ Canonical(info.dec) /\ ValueOf(info.dec, 10) = cp
            /\ SubSeq(info.hex, 1, 2) = <<"U","+">>
            /\ ValueOf(h, 16) = cp
            /\ Len(h) >= 4
            /\ Len(h) > 4 => h[1] # "0"
            /\ SubSeq(info.html_dec, 1, 2) = <<"&","#">>
            /\ info.html_dec[Len(info.html_dec)] = ";"
            /\ hd = info.dec
            /\ SubSeq(info.html_hex, 1, 3) = <<"&","#","x">>
            /\ info.html_hex[Len(info.html_hex)] = ";"
            /\ Canonical(hh) /\ ValueOf(hh, 16) = cp
            /\ info.char = "u20AC" =>
                  /\ info.dec = <<"8","3","6","4">>
                  /\ info.hex = <<"U","+","2","0","A","C">>
                  /\ info.html_dec = <<"&","#","8","3","6","4",";">>
                  /\ info.html_hex = <<"&","#","x","2","0","A","C",";">>

\* symbol_info called on the euro sign
C9_Witness == info.char = "u20AC" /\ info.raised = None

\* C10: at most one tooltip window exists and at most one show-timer is pending;
\* from a Leave until the next Enter or Motion no tooltip window is shown and no
\* timer is pending.
C10_TooltipQuietAfterLeave ==
    /\ Cardinality(toplevels) <= 1
    /\ Cardinality(after_pending) <= 1
    /\ toplevels = IF tipwindow = 0 THEN {} ELSE {tipwindow}
    /\ left => tipwindow = 0 /\ toplevels = {} /\ after_pending = {}

\* a Leave after a tooltip had been shown and a timer started again by a Motion
C10_Witness ==
    /\ left
    /\ next_toplevel >= 1
    /\ next_after >= 2

====
